---- MODULE Spec2Model ----
(***************************************************************************)
(* Streak and badge engine of the study journal (src/app.py).              *)
(*                                                                         *)
(* The state is the content of study_sync.db plus the wall-clock date.     *)
(* A calendar date is modelled by its day ordinal, so that date arithmetic *)
(* (timedelta(days=1), (a - b).days) is integer arithmetic.  Columns that  *)
(* no counter reads (notes, tips, icon, ...) are left out.                 *)
(***************************************************************************)
EXTENDS Integers, Sequences, FiniteSets, TLC

(* ---------------------------- bounds ----------------------------------- *)
\* calendar days 0..MaxDay of the whole program
MaxDay == 3
\* calendar days 0..MaxStreakDay of the streak pages alone
MaxStreakDay == 5
\* concurrent add_exercise requests
MaxWorkers == 2
\* number of exercise_logs ids AUTOINCREMENT hands out
MaxExercises == 2
\* thresholds of the seeded badges, scaled down from 5, 7, 10 and 7
ExerciseCountGoal == 2
StreakDaysGoal == 2
SubjectCountGoal == 2
DailyLogGoal == 2

Days == 0..MaxDay
StreakDays == 0..MaxStreakDay
Workers == 1..MaxWorkers
\* rows of the subjects table found in the database file at start
StoredSubjects == {"limits", "series"}
\* subject names a request may carry; "compactness" is not stored yet
SubjectNames == StoredSubjects \cup {"compactness"}
\* the name lists a request carries: none or one name
SubjectInputs == {{}} \cup {{s} : s \in SubjectNames}

VARIABLES
    today,             \* date.today()
    daily_entries,     \* set of entry_date (UNIQUE)
    exercise_logs,     \* set of exercise ids
    next_exercise_id,  \* AUTOINCREMENT sequence of exercise_logs
    subjects,          \* set of subject names (UNIQUE)
    exercise_subjects, \* set of <<exercise_log_id, subject>>
    badges,            \* sequence of badge definitions, in rowid order
    user_badges,       \* badge_id -> number of rows with that badge_id
    user_stats,        \* sequence of rows of user_stats
    resp,              \* what the last request returned
    proc               \* the requests in flight: position and local variables

vars == <<today, daily_entries, exercise_logs, next_exercise_id, subjects,
          exercise_subjects, badges, user_badges, user_stats, resp, proc>>

Max(a, b) == IF a >= b THEN a ELSE b

(* ------------------------- badge definitions --------------------------- *)
\* a row of badges; a name is the sequence of the code points of its characters
Badge(i, n, t, v) ==
    [id |-> i, name |-> n, milestone_type |-> t, milestone_value |-> v]

\* the badges table init_badges leaves in a new database file (each name is
\* cut to its first two characters)
init_badges ==
    << Badge(1, <<1514, 1512>>, "exercise_count", 1),
       Badge(2, <<1502, 1514>>, "exercise_count", ExerciseCountGoal),
       Badge(3, <<1500, 1493>>, "streak_days", StreakDaysGoal),
       Badge(4, <<1502, 1493>>, "subject_exercise_count", SubjectCountGoal),
       Badge(5, <<1497, 1493>>, "daily_log_streak", DailyLogGoal) >>

BadgeIds == {init_badges[i].id : i \in 1..Len(init_badges)}

(* --------------------------- calculate_streak -------------------------- *)
\* SELECT DISTINCT entry_date ... ORDER BY entry_date DESC
RECURSIVE OrderDesc(_)
OrderDesc(S) ==
    IF S = {} THEN << >>
    ELSE LET m == CHOOSE x \in S : \A y \in S : y <= x
         IN  <<m>> \o OrderDesc(S \ {m})

\* seeded fault: a run that ended before yesterday is still counted
RECURSIVE CurrentStreakLoopStaleRun(_, _, _, _)
CurrentStreakLoopStaleRun(dates, i, check_date, current_streak) ==
    IF i > Len(dates) THEN current_streak
    ELSE LET entry_date == dates[i] IN
         IF entry_date = check_date \/ entry_date = check_date - 1
         THEN IF entry_date = check_date
              THEN CurrentStreakLoopStaleRun(dates, i + 1, check_date, current_streak + 1)
              ELSE CurrentStreakLoopStaleRun(dates, i + 1, entry_date, current_streak + 1)
         ELSE IF entry_date < check_date - 1
              THEN IF current_streak = 0
                   THEN CurrentStreakLoopStaleRun(dates, i + 1, entry_date, 1)
                   ELSE current_streak
              ELSE CurrentStreakLoopStaleRun(dates, i + 1, check_date, current_streak)

\* seeded fault: an entry dated after today is counted
RECURSIVE CurrentStreakLoopCountsFuture(_, _, _, _)
CurrentStreakLoopCountsFuture(dates, i, check_date, current_streak) ==
    IF i > Len(dates) THEN current_streak
    ELSE LET entry_date == dates[i] IN
         IF entry_date = check_date \/ entry_date = check_date - 1
         THEN IF entry_date = check_date
              THEN CurrentStreakLoopCountsFuture(dates, i + 1, check_date, current_streak + 1)
              ELSE CurrentStreakLoopCountsFuture(dates, i + 1, entry_date, current_streak + 1)
         ELSE IF entry_date < check_date - 1
              THEN current_streak
              ELSE CurrentStreakLoopCountsFuture(dates, i + 1, check_date, current_streak + 1)

\* the loop "for entry_date in dates" that computes current_streak
RECURSIVE CurrentStreakLoop(_, _, _, _)
CurrentStreakLoop(dates, i, check_date, current_streak) ==
    IF i > Len(dates) THEN current_streak
    ELSE LET entry_date == dates[i] IN
         IF entry_date = check_date \/ entry_date = check_date - 1
         THEN IF entry_date = check_date
              THEN CurrentStreakLoop(dates, i + 1, check_date, current_streak + 1)
              ELSE CurrentStreakLoop(dates, i + 1, entry_date, current_streak + 1)
         ELSE IF entry_date < check_date - 1
              THEN current_streak
              ELSE CurrentStreakLoop(dates, i + 1, check_date, current_streak)

\* seeded fault: the max after the loop is missing
RECURSIVE LongestStreakLoopNoFinalMax(_, _, _, _)
LongestStreakLoopNoFinalMax(dates, i, current_longest, longest_streak) ==
    IF i > Len(dates) - 1 THEN longest_streak
    ELSE IF dates[i] - dates[i + 1] = 1
         THEN LongestStreakLoopNoFinalMax(dates, i + 1, current_longest + 1, longest_streak)
         ELSE LongestStreakLoopNoFinalMax(dates, i + 1, 1, Max(longest_streak, current_longest))

\* seeded fault: a gap does not start a new run
RECURSIVE LongestStreakLoopNoReset(_, _, _, _)
LongestStreakLoopNoReset(dates, i, current_longest, longest_streak) ==
    IF i > Len(dates) - 1 THEN Max(longest_streak, current_longest)
    ELSE IF dates[i] - dates[i + 1] = 1
         THEN LongestStreakLoopNoReset(dates, i + 1, current_longest + 1, longest_streak)
         ELSE LongestStreakLoopNoReset(dates, i + 1, current_longest,
                                       Max(longest_streak, current_longest))

\* the loop "for i in range(len(dates) - 1)" and the final max
RECURSIVE LongestStreakLoop(_, _, _, _)
LongestStreakLoop(dates, i, current_longest, longest_streak) ==
    IF i > Len(dates) - 1 THEN Max(longest_streak, current_longest)
    ELSE IF dates[i] - dates[i + 1] = 1
         THEN LongestStreakLoop(dates, i + 1, current_longest + 1, longest_streak)
         ELSE LongestStreakLoop(dates, i + 1, 1, Max(longest_streak, current_longest))

\* the pair calculate_streak returns
StreakPair(entries, day) ==
    LET dates == OrderDesc(entries) IN
    IF dates = << >> THEN <<0, 0>>
    ELSE << CurrentStreakLoop(dates, 1, day, 0), LongestStreakLoop(dates, 1, 1, 0) >>

\* seeded fault: a row is inserted by every call
StatsAfterAppends(stats, entries, day) ==
    LET pair == StreakPair(entries, day)
    IN  Append(stats, [current_streak |-> pair[1], longest_streak |-> pair[2]])

\* the user_stats table after calculate_streak
StatsAfter(stats, entries, day) ==
    LET dates == OrderDesc(entries)
        pair  == StreakPair(entries, day)
        row   == [current_streak |-> pair[1], longest_streak |-> pair[2]]
    IN  IF dates = << >> THEN stats
        ELSE IF Len(stats) > 0
             THEN [k \in 1..Len(stats) |-> row]
             ELSE <<row>>

(* ----------------------------- check_badges ---------------------------- *)
\* SELECT COUNT(*) FROM exercise_logs
TotalExercises(logs) == Cardinality(logs)

\* SELECT subject_id, COUNT(*) FROM exercise_subjects GROUP BY subject_id
SubjectCounts(assoc) ==
    [s \in {p[2] : p \in assoc} |-> Cardinality({p \in assoc : p[2] = s})]

\* seeded fault: an entry dated after today is counted
RECURSIVE DailyLogLoopCountsFuture(_, _, _, _)
DailyLogLoopCountsFuture(entry_dates, i, check_date, daily_log_streak) ==
    IF i > Len(entry_dates) THEN daily_log_streak
    ELSE LET entry_date == entry_dates[i] IN
         IF entry_date = check_date \/ entry_date = check_date - 1
         THEN DailyLogLoopCountsFuture(entry_dates, i + 1,
                           IF entry_date < check_date THEN entry_date ELSE check_date,
                           daily_log_streak + 1)
         ELSE IF entry_date < check_date - 1
              THEN daily_log_streak
              ELSE DailyLogLoopCountsFuture(entry_dates, i + 1, check_date,
                                            daily_log_streak + 1)

\* seeded fault: check_date stays at today
RECURSIVE DailyLogLoopKeepsCheckDate(_, _, _, _)
DailyLogLoopKeepsCheckDate(entry_dates, i, check_date, daily_log_streak) ==
    IF i > Len(entry_dates) THEN daily_log_streak
    ELSE LET entry_date == entry_dates[i] IN
         IF entry_date = check_date \/ entry_date = check_date - 1
         THEN DailyLogLoopKeepsCheckDate(entry_dates, i + 1, check_date,
                                         daily_log_streak + 1)
         ELSE IF entry_date < check_date - 1
              THEN daily_log_streak
              ELSE DailyLogLoopKeepsCheckDate(entry_dates, i + 1, check_date,
                                              daily_log_streak)

\* the loop "for entry_date in entry_dates" that computes daily_log_streak
RECURSIVE DailyLogLoop(_, _, _, _)
DailyLogLoop(entry_dates, i, check_date, daily_log_streak) ==
    IF i > Len(entry_dates) THEN daily_log_streak
    ELSE LET entry_date == entry_dates[i] IN
         IF entry_date = check_date \/ entry_date = check_date - 1
         THEN DailyLogLoop(entry_dates, i + 1,
                           IF entry_date < check_date THEN entry_date ELSE check_date,
                           daily_log_streak + 1)
         ELSE IF entry_date < check_date - 1
              THEN daily_log_streak
              ELSE DailyLogLoop(entry_dates, i + 1, check_date, daily_log_streak)

DailyLogStreak(entries, day) ==
    LET entry_dates == OrderDesc(entries) IN
    IF entry_dates = << >> THEN 0 ELSE DailyLogLoop(entry_dates, 1, day, 0)

\* the counters one evaluation reads
Counters(logs, assoc, entries, day) ==
    [total_exercises  |-> TotalExercises(logs),
     current_streak   |-> StreakPair(entries, day)[1],
     subject_counts   |-> SubjectCounts(assoc),
     daily_log_streak |-> DailyLogStreak(entries, day)]

\* seeded fault: > where the code has >=
UnlockedBadgeStrict(b, k) ==
    IF b.milestone_type = "exercise_count" /\ k.total_exercises > b.milestone_value
    THEN TRUE
    ELSE IF b.milestone_type = "streak_days" /\ k.current_streak > b.milestone_value
    THEN TRUE
    ELSE IF b.milestone_type = "subject_exercise_count"
    THEN \E s \in DOMAIN k.subject_counts : k.subject_counts[s] > b.milestone_value
    ELSE IF b.milestone_type = "daily_log_streak" /\ k.daily_log_streak > b.milestone_value
    THEN TRUE
    ELSE FALSE

\* the if / elif chain that sets unlocked_badge
UnlockedBadge(b, k) ==
    IF b.milestone_type = "exercise_count" /\ k.total_exercises >= b.milestone_value
    THEN TRUE
    ELSE IF b.milestone_type = "streak_days" /\ k.current_streak >= b.milestone_value
    THEN TRUE
    ELSE IF b.milestone_type = "subject_exercise_count"
    THEN \E s \in DOMAIN k.subject_counts : k.subject_counts[s] >= b.milestone_value
    ELSE IF b.milestone_type = "daily_log_streak" /\ k.daily_log_streak >= b.milestone_value
    THEN TRUE
    ELSE FALSE

\* seeded fault: the unlocked badges are not read
UnlockedNone(ledger) == {}

\* SELECT badge_id FROM user_badges
Unlocked(ledger) == {b \in DOMAIN ledger : ledger[b] > 0}

\* seeded fault: user_badges without its primary key
NoPrimaryKey(ledger, badge_id) == FALSE

\* PRIMARY KEY (badge_id): an INSERT of a badge_id that has a row is refused
PrimaryKeyViolation(ledger, badge_id) == ledger[badge_id] > 0

\* the loop "for badge_id, milestone_type, milestone_value in badges":
\* the ledger, the list returned, and whether an INSERT raised
RECURSIVE UnlockLoop(_, _, _, _, _, _)
UnlockLoop(defs, i, unlocked, k, ledger, newly_unlocked) ==
    IF i > Len(defs)
    THEN [ledger |-> ledger, newly_unlocked |-> newly_unlocked, raised |-> FALSE]
    ELSE LET b == defs[i] IN
         IF b.id \in unlocked
         THEN UnlockLoop(defs, i + 1, unlocked, k, ledger, newly_unlocked)
         ELSE IF UnlockedBadge(b, k)
              THEN IF PrimaryKeyViolation(ledger, b.id)
                   THEN [ledger |-> ledger, newly_unlocked |-> newly_unlocked,
                         raised |-> TRUE]
                   ELSE UnlockLoop(defs, i + 1, unlocked, k,
                                   [ledger EXCEPT ![b.id] = @ + 1],
                                   newly_unlocked \cup {b.id})
              ELSE UnlockLoop(defs, i + 1, unlocked, k, ledger, newly_unlocked)

\* seeded fault: the ledger is rebuilt from the counters
EvaluateResync(defs, ledger, logs, assoc, entries, day) ==
    LET k   == Counters(logs, assoc, entries, day)
        sat == {defs[i].id : i \in {j \in 1..Len(defs) : UnlockedBadge(defs[j], k)}}
    IN  [ledger |-> [b \in DOMAIN ledger |-> IF b \in sat THEN 1 ELSE 0],
         newly_unlocked |-> sat \ Unlocked(ledger), raised |-> FALSE]

\* one whole evaluation on the stored data
Evaluate(defs, ledger, logs, assoc, entries, day) ==
    UnlockLoop(defs, 1, Unlocked(ledger), Counters(logs, assoc, entries, day),
               ledger, {})

(* ----------------------- cleanup_duplicate_badges ---------------------- *)
\* the characters '\u0590' and '\u05FF'
HebrewFirst == 1424
HebrewLast == 1535

\* any('\u0590' <= char <= '\u05FF' for char in name)
ContainsHebrew(name) ==
    \E j \in 1..Len(name) : HebrewFirst <= name[j] /\ name[j] <= HebrewLast

\* the columns the badges are grouped by
Pair(b) == <<b.milestone_type, b.milestone_value>>

\* SELECT ... GROUP BY milestone_type, milestone_value HAVING COUNT(*) > 1
Duplicates(defs) ==
    {Pair(defs[j]) : j \in {l \in 1..Len(defs) :
        \E m \in 1..Len(defs) : m # l /\ Pair(defs[m]) = Pair(defs[l])}}

\* SELECT id, name FROM badges WHERE milestone_type = ? AND milestone_value = ?
BadgesOf(defs, pair) == SelectSeq(defs, LAMBDA b : Pair(b) = pair)

\* the loop that looks for a name with a Hebrew character; 0 stands for None
RECURSIVE HebrewLoop(_, _)
HebrewLoop(group, j) ==
    IF j > Len(group) THEN 0
    ELSE IF ContainsHebrew(group[j].name) THEN group[j].id
         ELSE HebrewLoop(group, j + 1)

\* seeded fault: the first badge of the group is kept whatever its name
HebrewBadgeIdFirst(group) == group[1].id

\* hebrew_badge_id, with "if not hebrew_badge_id" applied
HebrewBadgeId(group) ==
    LET hebrew_badge_id == HebrewLoop(group, 1)
    IN  IF hebrew_badge_id = 0 THEN group[1].id ELSE hebrew_badge_id

\* UPDATE OR IGNORE user_badges SET badge_id = ? WHERE badge_id = ?: the row
\* stays as it is when the new badge_id already has a row
UpdateOrIgnore(ledger, hebrew_badge_id, badge_id) ==
    IF ledger[badge_id] > 0 /\ ~PrimaryKeyViolation(ledger, hebrew_badge_id)
    THEN [ledger EXCEPT ![hebrew_badge_id] = ledger[badge_id], ![badge_id] = 0]
    ELSE ledger

\* seeded fault: the duplicate is not deleted
DeleteBadgeKeeps(defs, badge_id) == defs

\* DELETE FROM badges WHERE id = ?
DeleteBadge(defs, badge_id) == SelectSeq(defs, LAMBDA b : b.id # badge_id)

\* the loop "for badge_id, name in badges" over one group
RECURSIVE DeleteLoop(_, _, _, _, _)
DeleteLoop(group, j, hebrew_badge_id, defs, ledger) ==
    IF j > Len(group) THEN [badges |-> defs, user_badges |-> ledger]
    ELSE IF group[j].id # hebrew_badge_id
         THEN DeleteLoop(group, j + 1, hebrew_badge_id,
                         DeleteBadge(defs, group[j].id),
                         UpdateOrIgnore(ledger, hebrew_badge_id, group[j].id))
         ELSE DeleteLoop(group, j + 1, hebrew_badge_id, defs, ledger)

\* the loop "for milestone_type, milestone_value, ids_str in duplicates";
\* the groups are disjoint, so the order they are taken in changes nothing
RECURSIVE CleanupLoop(_, _, _)
CleanupLoop(duplicates, defs, ledger) ==
    IF duplicates = {} THEN [badges |-> defs, user_badges |-> ledger]
    ELSE LET pair  == CHOOSE p \in duplicates : TRUE
             group == BadgesOf(defs, pair)
             r     == DeleteLoop(group, 1, HebrewBadgeId(group), defs, ledger)
         IN  CleanupLoop(duplicates \ {pair}, r.badges, r.user_badges)

\* the two tables after cleanup_duplicate_badges
CleanupDuplicateBadges(defs, ledger) ==
    CleanupLoop(Duplicates(defs), defs, ledger)

(* ------------------------------ responses ------------------------------ *)
NoStreak == <<0, 0>>

\* the request, its HTTP status, the exception that ended it (if any), and
\* what the body carries: the streak pair of a page, badges_unlocked
Resp(op, status, error, streak, unlockedNow) ==
    [op |-> op, status |-> status, error |-> error, streak |-> streak,
     badges_unlocked |-> unlockedNow]

(* ------------------------- requests in flight -------------------------- *)
NoCounters ==
    [total_exercises |-> 0, current_streak |-> 0, longest_streak |-> 0,
     subject_counts |-> << >>, daily_log_streak |-> 0]

Idle == [pc |-> "idle", entry_date |-> 0, names |-> {}, has_row |-> FALSE,
         k |-> NoCounters, unlocked |-> {}]

(* ------------------------------- dates --------------------------------- *)
\* a date_str "YYYY-mm-dd" of the modelled year, by its month and day fields
DateStr(m, d) == [month |-> m, day |-> d]

\* date.isoformat(): the modelled calendar is January, day 0 is its first
isoformat(entry_date) == DateStr(1, entry_date + 1)

\* seeded fault: the date string is not validated
ValueErrorNever(date_str) == FALSE

\* datetime.strptime(date_str, '%Y-%m-%d') raises ValueError
ValueError(date_str) == ~(date_str.month = 1 /\ date_str.day \in 1..31)

\* datetime.strptime(date_str, '%Y-%m-%d').date()
strptime(date_str) == date_str.day - 1

\* date strings that do not parse: a 13th month, a 32nd of January
InvalidDateStrs == {DateStr(13, 1), DateStr(1, 32)}

\* the date strings a request may carry, up to day last
DateStrs(last) == {isoformat(d) : d \in 0..last} \cup InvalidDateStrs

\* the name lists of the requests that carry date strings: no name, or one
\* that is not stored
UntaggedInputs == {{}} \cup {{s} : s \in SubjectNames \ StoredSubjects}

\* the exercises of an imported entry, each by its subject names: none or one
ImportedExercises == {<< >>} \cup {<<names>> : names \in UntaggedInputs}

(* -------------------------------- Init --------------------------------- *)
Init ==
    /\ today = 0
    /\ daily_entries = {}
    /\ exercise_logs = {}
    /\ next_exercise_id = 1
    /\ subjects = StoredSubjects
    /\ exercise_subjects = {}
    /\ badges = init_badges
    /\ user_badges = [b \in BadgeIds |-> 0]
    /\ user_stats = << >>
    /\ resp = Resp("start", 200, "", NoStreak, {})
    /\ proc = [w \in Workers |-> Idle]

(* ----------------------- requests, one at a time ----------------------- *)
\* seeded fault: the page shows a day without creating its entry
entry_detail_view_only(date_str) ==
    /\ resp' = IF ValueError(date_str)
               THEN Resp("entry_detail", 400, "", NoStreak, {})
               ELSE Resp("entry_detail", 200, "", NoStreak, {})
    /\ UNCHANGED <<today, daily_entries, exercise_logs, next_exercise_id,
                   subjects, exercise_subjects, badges, user_badges, user_stats,
                   proc>>

\* GET /entry/<date_str>
entry_detail(date_str) ==
    IF ValueError(date_str)
    THEN /\ resp' = Resp("entry_detail", 400, "", NoStreak, {})
         /\ UNCHANGED <<today, daily_entries, exercise_logs,
                        next_exercise_id, subjects, exercise_subjects, badges,
                        user_badges, user_stats, proc>>
    ELSE LET entry_date == strptime(date_str)
         IN  /\ daily_entries' = daily_entries \cup {entry_date}
             /\ resp' = Resp("entry_detail", 200, "", NoStreak, {})
             /\ UNCHANGED <<today, exercise_logs,
                            next_exercise_id, subjects, exercise_subjects, badges,
                            user_badges, user_stats, proc>>

\* PUT /entry/<date_str>/notes
update_entry_notes(date_str) ==
    IF ValueError(date_str)
    THEN /\ resp' = Resp("update_entry_notes", 400, "", NoStreak, {})
         /\ UNCHANGED <<today, daily_entries, exercise_logs,
                        next_exercise_id, subjects, exercise_subjects, badges,
                        user_badges, user_stats, proc>>
    ELSE LET entry_date == strptime(date_str)
         IN  /\ daily_entries' = daily_entries \cup {entry_date}
             /\ resp' = Resp("update_entry_notes", 200, "", NoStreak, {})
             /\ UNCHANGED <<today, exercise_logs,
                            next_exercise_id, subjects, exercise_subjects, badges,
                            user_badges, user_stats, proc>>

\* POST /entry/<date_str>/exercise with an exercise number;
\* all_subject_names is the union of the manual and detected names.
\* get_or_create_subject INSERTs a missing name through a second connection
\* while this one holds the write lock: "database is locked", and the
\* uncommitted exercise is rolled back (the daily entry is already committed).
\* An INSERT that raises inside check_badges leaves its inserts uncommitted;
\* the exercise is committed before check_badges is called.
add_exercise(date_str, all_subject_names) ==
    /\ next_exercise_id <= MaxExercises
    /\ IF ValueError(date_str)
       THEN /\ resp' = Resp("add_exercise", 400, "", NoStreak, {})
            /\ UNCHANGED <<daily_entries, exercise_logs, next_exercise_id,
                           exercise_subjects, user_badges, user_stats>>
       ELSE LET entry_date == strptime(date_str) IN
            /\ daily_entries' = daily_entries \cup {entry_date}
            /\ IF all_subject_names \subseteq subjects
               THEN LET exercise_id == next_exercise_id
                        logs  == exercise_logs \cup {exercise_id}
                        assoc == exercise_subjects \cup
                                     {<<exercise_id, s>> : s \in all_subject_names}
                        ev    == Evaluate(badges, user_badges, logs, assoc,
                                          daily_entries', today)
                    IN  /\ exercise_logs' = logs
                        /\ next_exercise_id' = exercise_id + 1
                        /\ exercise_subjects' = assoc
                        /\ user_stats' =
                               StatsAfter(user_stats, daily_entries', today)
                        /\ user_badges' =
                               IF ev.raised THEN user_badges ELSE ev.ledger
                        /\ resp' =
                               IF ev.raised
                               THEN Resp("add_exercise", 500, "IntegrityError",
                                         NoStreak, {})
                               ELSE Resp("add_exercise", 200, "", NoStreak,
                                         ev.newly_unlocked)
               ELSE /\ resp' = Resp("add_exercise", 500, "OperationalError",
                                    NoStreak, {})
                    /\ UNCHANGED <<exercise_logs, next_exercise_id,
                                   exercise_subjects, user_badges, user_stats>>
    /\ UNCHANGED <<today, subjects, badges, proc>>

\* POST /import with a file of one entry, dated entry_date, whose exercises
\* are imported.  The module never imports json, so json.loads(...) raises
\* NameError as the first statement of the try block; the except clause
\* answers 500 and no connection has been opened.
import_data(entry_date, imported) ==
    /\ resp' = Resp("import_data", 500, "NameError", NoStreak, {})
    /\ UNCHANGED <<today, daily_entries, exercise_logs, next_exercise_id,
                   subjects, exercise_subjects, badges, user_badges, user_stats,
                   proc>>

\* PUT /exercise/<exercise_id>
update_exercise(exercise_id, all_subject_names) ==
    /\ IF all_subject_names \subseteq subjects
       THEN /\ exercise_subjects' =
                  {p \in exercise_subjects : p[1] # exercise_id} \cup
                  {<<exercise_id, s>> : s \in all_subject_names}
            /\ resp' = Resp("update_exercise", 200, "", NoStreak, {})
       ELSE /\ resp' = Resp("update_exercise", 500, "OperationalError", NoStreak, {})
            /\ UNCHANGED exercise_subjects
    /\ UNCHANGED <<today, daily_entries, exercise_logs, next_exercise_id,
                   subjects, badges, user_badges, user_stats, proc>>

\* seeded fault: the daily entries are deleted with the exercise
delete_exercise_and_entries(exercise_id) ==
    /\ exercise_subjects' = {p \in exercise_subjects : p[1] # exercise_id}
    /\ exercise_logs' = exercise_logs \ {exercise_id}
    /\ daily_entries' = {}
    /\ resp' = Resp("delete_exercise", 200, "", NoStreak, {})
    /\ UNCHANGED <<today, next_exercise_id, subjects, badges, user_badges,
                   user_stats, proc>>

\* DELETE /exercise/<exercise_id>
delete_exercise(exercise_id) ==
    /\ exercise_subjects' = {p \in exercise_subjects : p[1] # exercise_id}
    /\ exercise_logs' = exercise_logs \ {exercise_id}
    /\ resp' = Resp("delete_exercise", 200, "", NoStreak, {})
    /\ UNCHANGED <<today, daily_entries, next_exercise_id, subjects, badges, user_badges, user_stats, proc>>

\* POST /exercise/<exercise_id>/toggle-complete: is_completed is read by no
\* counter and is left out
toggle_exercise_complete(exercise_id) ==
    /\ resp' = IF exercise_id \in exercise_logs
               THEN Resp("toggle_exercise_complete", 200, "", NoStreak, {})
               ELSE Resp("toggle_exercise_complete", 404, "", NoStreak, {})
    /\ UNCHANGED <<today, daily_entries, exercise_logs, next_exercise_id,
                   subjects, exercise_subjects, badges, user_badges, user_stats,
                   proc>>

\* GET /, /stats, /search: get_stats calls calculate_streak
get_stats ==
    /\ user_stats' = StatsAfter(user_stats, daily_entries, today)
    /\ resp' = Resp("get_stats", 200, "", StreakPair(daily_entries, today), {})
    /\ UNCHANGED <<today, daily_entries, exercise_logs, next_exercise_id,
                   subjects, exercise_subjects, badges, user_badges, proc>>

\* midnight: date.today() moves on, up to the last modelled day
AdvanceDay(last) ==
    /\ today < last
    /\ today' = today + 1
    /\ resp' = Resp("midnight", 200, "", NoStreak, {})
    /\ UNCHANGED <<daily_entries, exercise_logs, next_exercise_id, subjects,
                   exercise_subjects, badges, user_badges, user_stats, proc>>

\* check_badges() called on its own
check_badges ==
    LET ev == Evaluate(badges, user_badges, exercise_logs, exercise_subjects,
                       daily_entries, today)
    IN  /\ user_stats' = StatsAfter(user_stats, daily_entries, today)
        /\ user_badges' = IF ev.raised THEN user_badges ELSE ev.ledger
        /\ resp' = IF ev.raised
                   THEN Resp("check_badges", 500, "IntegrityError", NoStreak, {})
                   ELSE Resp("check_badges", 200, "", NoStreak, ev.newly_unlocked)
        /\ UNCHANGED <<today, daily_entries, exercise_logs, next_exercise_id,
                       subjects, exercise_subjects, badges, proc>>

(* ------------- add_exercise requests that run side by side ------------- *)
\* A step is what one connection does between two moments at which another
\* connection can commit: SQLite lets one connection write at a time, and a
\* writer holds the lock from its first INSERT to its commit or rollback.

\* add_exercise: SELECT id FROM daily_entries WHERE entry_date = ?
add_exercise_lookup(w, entry_date, all_subject_names) ==
    /\ proc[w].pc = "idle"
    /\ next_exercise_id
           + Cardinality({v \in Workers : proc[v].pc \in {"entry", "insert"}})
           <= MaxExercises
    /\ proc' = [proc EXCEPT ![w] =
                   [Idle EXCEPT !.pc = IF entry_date \in daily_entries
                                       THEN "insert" ELSE "entry",
                                !.entry_date = IF entry_date \in daily_entries
                                               THEN 0 ELSE entry_date,
                                !.names = all_subject_names]]
    /\ UNCHANGED <<today, daily_entries, exercise_logs, next_exercise_id, subjects,
                   exercise_subjects, badges, user_badges, user_stats, resp>>

\* add_exercise: INSERT INTO daily_entries and conn.commit(); entry_date is
\* UNIQUE, so the INSERT raises if the entry has been created meanwhile
add_exercise_entry(w) ==
    /\ proc[w].pc = "entry"
    /\ IF proc[w].entry_date \in daily_entries
       THEN /\ resp' = Resp("add_exercise", 500, "IntegrityError", NoStreak, {})
            /\ proc' = [proc EXCEPT ![w] = Idle]
            /\ UNCHANGED daily_entries
       ELSE /\ daily_entries' = daily_entries \cup {proc[w].entry_date}
            /\ proc' = [proc EXCEPT ![w].pc = "insert", ![w].entry_date = 0]
            /\ UNCHANGED resp
    /\ UNCHANGED <<today, exercise_logs, next_exercise_id, subjects,
                   exercise_subjects, badges, user_badges, user_stats>>

\* add_exercise from the INSERT of the exercise to conn.commit()
add_exercise_insert(w) ==
    /\ proc[w].pc = "insert"
    /\ IF proc[w].names \subseteq subjects
       THEN /\ exercise_logs' = exercise_logs \cup {next_exercise_id}
            /\ next_exercise_id' = next_exercise_id + 1
            /\ exercise_subjects' = exercise_subjects \cup
                   {<<next_exercise_id, s>> : s \in proc[w].names}
            /\ proc' = [proc EXCEPT ![w].pc = "counters", ![w].names = {}]
            /\ UNCHANGED resp
       ELSE /\ resp' = Resp("add_exercise", 500, "OperationalError", NoStreak, {})
            /\ proc' = [proc EXCEPT ![w] = Idle]
            /\ UNCHANGED <<exercise_logs, next_exercise_id, exercise_subjects>>
    /\ UNCHANGED <<today, daily_entries, subjects, badges, user_badges, user_stats>>

\* check_badges: the exercise count, and calculate_streak up to
\* SELECT id FROM user_stats LIMIT 1
check_badges_counters(w) ==
    /\ proc[w].pc = "counters"
    /\ proc' = [proc EXCEPT
                   ![w].pc = "stats",
                   ![w].has_row = Len(user_stats) > 0,
                   ![w].k = [NoCounters EXCEPT
                                !.total_exercises = TotalExercises(exercise_logs),
                                !.current_streak = StreakPair(daily_entries, today)[1],
                                !.longest_streak = StreakPair(daily_entries, today)[2]]]
    /\ UNCHANGED <<today, daily_entries, exercise_logs, next_exercise_id,
                   subjects, exercise_subjects, badges, user_badges, user_stats,
                   resp>>

\* calculate_streak: the UPDATE or the INSERT of user_stats and conn.commit();
\* id is the primary key, so the INSERT raises if the row has been inserted
\* meanwhile
calculate_streak_write(w) ==
    /\ proc[w].pc = "stats"
    /\ LET row == [current_streak |-> proc[w].k.current_streak,
                   longest_streak |-> proc[w].k.longest_streak]
       IN  IF proc[w].has_row
           THEN /\ user_stats' = [i \in 1..Len(user_stats) |-> row]
                /\ proc' = [proc EXCEPT ![w].pc = "ledger",
                                        ![w].has_row = FALSE,
                                        ![w].k.longest_streak = 0]
                /\ UNCHANGED resp
           ELSE IF Len(user_stats) > 0
                THEN /\ resp' = Resp("add_exercise", 500, "IntegrityError",
                                     NoStreak, {})
                     /\ proc' = [proc EXCEPT ![w] = Idle]
                     /\ UNCHANGED user_stats
                ELSE /\ user_stats' = <<row>>
                     /\ proc' = [proc EXCEPT ![w].pc = "ledger",
                                             ![w].k.longest_streak = 0]
                     /\ UNCHANGED resp
    /\ UNCHANGED <<today, daily_entries, exercise_logs, next_exercise_id,
                   subjects, exercise_subjects, badges, user_badges>>

\* check_badges: the counts per subject, daily_log_streak, the badges and
\* the set of unlocked badge ids
check_badges_ledger(w) ==
    /\ proc[w].pc = "ledger"
    /\ proc' = [proc EXCEPT
                   ![w].pc = "unlock",
                   ![w].k.subject_counts = SubjectCounts(exercise_subjects),
                   ![w].k.daily_log_streak = DailyLogStreak(daily_entries, today),
                   ![w].unlocked = Unlocked(user_badges)]
    /\ UNCHANGED <<today, daily_entries, exercise_logs, next_exercise_id,
                   subjects, exercise_subjects, badges, user_badges, user_stats,
                   resp>>

\* check_badges: the loop of INSERTs and conn.commit(), and the response
check_badges_unlock(w) ==
    /\ proc[w].pc = "unlock"
    /\ LET ev == UnlockLoop(badges, 1, proc[w].unlocked, proc[w].k, user_badges, {})
       IN  /\ user_badges' = IF ev.raised THEN user_badges ELSE ev.ledger
           /\ resp' = IF ev.raised
                      THEN Resp("add_exercise", 500, "IntegrityError", NoStreak, {})
                      ELSE Resp("add_exercise", 200, "", NoStreak, ev.newly_unlocked)
    /\ proc' = [proc EXCEPT ![w] = Idle]
    /\ UNCHANGED <<today, daily_entries, exercise_logs, next_exercise_id,
                   subjects, exercise_subjects, badges, user_stats>>

(* ------------------------------ start-up ------------------------------- *)
\* rows of the badges table in a database file an earlier version has seeded
MaxBadgeRows == 3
BadgeRowIds == 1..MaxBadgeRows

\* the second character of a stored name: the last code point below the
\* Hebrew block, its first, its last, and the first code point above it
NameChars == {HebrewFirst - 1, HebrewFirst, HebrewLast, HebrewLast + 1}

\* the (milestone_type, milestone_value) pairs of the stored definitions
StoredPairs == {<<"exercise_count", 1>>, <<"streak_days", StreakDaysGoal>>}

\* the database file as cleanup_duplicate_badges finds it: names are UNIQUE
\* (the first character differs from row to row), badge_id is the primary key
InitCleanup ==
    /\ today = 0
    /\ daily_entries = {}
    /\ exercise_logs = {}
    /\ next_exercise_id = 1
    /\ subjects = StoredSubjects
    /\ exercise_subjects = {}
    /\ \E chars \in [BadgeRowIds -> NameChars], pairs \in [BadgeRowIds -> StoredPairs] :
           badges = [i \in BadgeRowIds |->
                        Badge(i, <<64 + i, chars[i]>>, pairs[i][1], pairs[i][2])]
    /\ user_badges \in [BadgeRowIds -> {0, 1}]
    /\ user_stats = << >>
    /\ resp = Resp("start", 200, "", NoStreak, {})
    /\ proc = [w \in Workers |-> Idle]

\* cleanup_duplicate_badges(), called by init_badges when the module loads
cleanup_duplicate_badges ==
    LET r == CleanupDuplicateBadges(badges, user_badges)
    IN  /\ badges' = r.badges
        /\ user_badges' = r.user_badges
        /\ resp' = Resp("cleanup_duplicate_badges", 200, "", NoStreak, {})
        /\ UNCHANGED <<today, daily_entries, exercise_logs,
                       next_exercise_id, subjects, exercise_subjects, user_stats,
                       proc>>

(* ---------------------------- specifications --------------------------- *)
\* the ids a client can name: those add_exercise has returned as exercise_id
ExerciseIds == 1..(next_exercise_id - 1)

\* the program, one request at a time
Next ==
    \/ \E d \in Days : entry_detail(isoformat(d))
    \/ \E d \in Days : update_entry_notes(isoformat(d))
    \/ \E d \in Days, names \in SubjectInputs : add_exercise(isoformat(d), names)
    \/ \E e \in ExerciseIds, names \in SubjectInputs : update_exercise(e, names)
    \/ \E e \in ExerciseIds : delete_exercise(e)
    \/ \E e \in ExerciseIds : toggle_exercise_complete(e)
    \/ get_stats
    \/ AdvanceDay(MaxDay)

Spec == Init /\ [][Next]_vars

\* the program, and check_badges called on its own
NextEval ==
    \/ Next
    \/ check_badges

SpecEval == Init /\ [][NextEval]_vars

\* the pages that create daily entries and show the streak
NextStreak ==
    \/ \E d \in StreakDays : entry_detail(isoformat(d))
    \/ \E d \in StreakDays : update_entry_notes(isoformat(d))
    \/ get_stats
    \/ AdvanceDay(MaxStreakDay)

SpecStreak == Init /\ [][NextStreak]_vars

\* add_exercise requests side by side
NextConc ==
    \/ \E w \in Workers, d \in Days, names \in SubjectInputs :
           add_exercise_lookup(w, d, names)
    \/ \E w \in Workers : add_exercise_entry(w)
    \/ \E w \in Workers : add_exercise_insert(w)
    \/ \E w \in Workers : check_badges_counters(w)
    \/ \E w \in Workers : calculate_streak_write(w)
    \/ \E w \in Workers : check_badges_ledger(w)
    \/ \E w \in Workers : check_badges_unlock(w)
    \/ AdvanceDay(MaxDay)

SpecConc == Init /\ [][NextConc]_vars

\* the requests that carry a date, with dates that do not parse, and the import
NextImport ==
    \/ \E s \in DateStrs(MaxDay) : entry_detail(s)
    \/ \E s \in DateStrs(MaxDay) : update_entry_notes(s)
    \/ \E s \in DateStrs(MaxDay), names \in UntaggedInputs : add_exercise(s, names)
    \/ \E s \in DateStrs(MaxDay), imported \in ImportedExercises :
           import_data(s, imported)
    \/ get_stats
    \/ AdvanceDay(MaxDay)

SpecImport == Init /\ [][NextImport]_vars

\* the duplicate cleanup on a stored badges table
NextCleanup == cleanup_duplicate_badges

SpecCleanup == InitCleanup /\ [][NextCleanup]_vars

(* ------------------------------- claims -------------------------------- *)
\* the length of the run of consecutive days with an entry that ends at d
RunEndingAt(entries, d) ==
    IF d \notin entries THEN 0
    ELSE CHOOSE n \in 1..Cardinality(entries) :
             /\ \A j \in 0..(n - 1) : (d - j) \in entries
             /\ (d - n) \notin entries

\* the length of the longest such run in the whole history
LongestRun(entries) ==
    IF entries = {} THEN 0
    ELSE CHOOSE n \in 1..Cardinality(entries) :
             /\ \E d \in entries : RunEndingAt(entries, d) = n
             /\ \A d \in entries : RunEndingAt(entries, d) <= n

MostRecent(entries) == CHOOSE d \in entries : \A e \in entries : e <= d

\* the largest number of exercises associated with one subject
LargestSubjectCount(assoc) ==
    CHOOSE n \in 0..Cardinality(assoc) :
        /\ \A s \in SubjectNames : Cardinality({p \in assoc : p[2] = s}) <= n
        /\ n > 0 => \E s \in SubjectNames : Cardinality({p \in assoc : p[2] = s}) = n

\* the last request was a page that shows the streak
StreakShown == resp.op = "get_stats"

\* the last request ended with a completed evaluation
Evaluated == resp.op \in {"add_exercise", "check_badges"} /\ resp.status = 200

\* C1: a badge_id that is in user_badges stays in user_badges over every
\* step of the program and every evaluation, whatever the counters do.
C1_UnlockedStaysUnlocked ==
    [][\A b \in BadgeIds : user_badges[b] > 0 => user_badges'[b] > 0]_vars

\* an evaluation has just run while the exercise_count, streak_days and
\* subject_exercise_count badges are unlocked and all three counters are
\* below their thresholds again
C1_Witness ==
    /\ Evaluated
    /\ user_badges[2] > 0 /\ TotalExercises(exercise_logs) < ExerciseCountGoal
    /\ user_badges[3] > 0 /\ StreakPair(daily_entries, today)[1] < StreakDaysGoal
    /\ user_badges[4] > 0 /\ LargestSubjectCount(exercise_subjects) < SubjectCountGoal

\* C2: an evaluation that directly follows an evaluation returns an empty
\* list and leaves user_badges as it was; and an evaluation returns only
\* badges that had no row before it and have exactly one row after it.
C2_SecondEvaluationEmpty ==
    [][ /\ (Evaluated /\ resp'.op = "check_badges")
            => /\ resp'.status = 200
               /\ resp'.badges_unlocked = {}
               /\ user_badges' = user_badges
        /\ \A b \in resp'.badges_unlocked :
               resp' # resp => user_badges[b] = 0 /\ user_badges'[b] = 1 ]_vars

\* check_badges returned an empty list although the exercise count sits at
\* the threshold of the exercise_count badge, which an earlier evaluation
\* unlocked
C2_Witness ==
    /\ resp.op = "check_badges" /\ resp.status = 200
    /\ resp.badges_unlocked = {}
    /\ TotalExercises(exercise_logs) = ExerciseCountGoal
    /\ user_badges[2] = 1

\* C3: the pair calculate_streak returns satisfies
\* 0 <= current_streak <= longest_streak and current_streak <= number of dates.
C3_StreakBounds ==
    StreakShown =>
        /\ 0 <= resp.streak[1]
        /\ resp.streak[1] <= resp.streak[2]
        /\ resp.streak[1] <= Cardinality(daily_entries)

\* a streak shown while an entry is dated after today and the current
\* streak is positive and shorter than the longest
C3_Witness ==
    /\ StreakShown
    /\ \E d \in daily_entries : d > today
    /\ resp.streak[1] >= 1
    /\ resp.streak[1] < resp.streak[2]

\* the most recent activity date is more than one day before today
StaleHistory == daily_entries # {} /\ MostRecent(daily_entries) < today - 1

\* C4 as claimed: with the most recent date more than one day before today,
\* current_streak is the length of the run that ends at that date.
C4_StaleRunCounted ==
    (StreakShown /\ StaleHistory) =>
        resp.streak[1] = RunEndingAt(daily_entries, MostRecent(daily_entries))

\* C4 as amended: with the most recent date more than one day before today,
\* current_streak is 0.
C4_StaleRunIsZero ==
    (StreakShown /\ StaleHistory) => resp.streak[1] = 0

\* a streak shown when a run of two or more days ended before yesterday
C4_Witness ==
    /\ StreakShown /\ StaleHistory
    /\ RunEndingAt(daily_entries, MostRecent(daily_entries)) >= 2

\* C5: when today has an entry, current_streak is the length of the run of
\* consecutive days with an entry that ends today.
C5_CurrentRunEndsToday ==
    (StreakShown /\ today \in daily_entries) =>
        resp.streak[1] = RunEndingAt(daily_entries, today)

\* a streak of two or more shown while an entry is dated after today and an
\* older entry lies beyond a gap
C5_Witness ==
    /\ StreakShown /\ today \in daily_entries
    /\ resp.streak[1] >= 2
    /\ \E d \in daily_entries : d > today
    /\ \E d \in daily_entries : d < today - resp.streak[1]

\* C6: for a non-empty history longest_streak is the length of the longest
\* run of consecutive days in it, whatever today is.
C6_LongestRun ==
    (StreakShown /\ daily_entries # {}) =>
        resp.streak[2] = LongestRun(daily_entries)

\* a streak shown for a history of three runs, the longest neither the first
\* nor the last, with today before the last entry
C6_Witness ==
    /\ StreakShown
    /\ \E a, b, c \in daily_entries :
           /\ a < b /\ b < c
           /\ (a + 1) \notin daily_entries
           /\ RunEndingAt(daily_entries, b) >= 2
           /\ (b + 1) \notin daily_entries
           /\ RunEndingAt(daily_entries, c) = 1
           /\ today < c

\* the rule of a badge, stated on the stored data
RuleHolds(b, logs, assoc, entries, day) ==
    CASE b.milestone_type = "exercise_count" ->
             Cardinality(logs) >= b.milestone_value
      [] b.milestone_type = "streak_days" ->
             StreakPair(entries, day)[1] >= b.milestone_value
      [] b.milestone_type = "subject_exercise_count" ->
             LargestSubjectCount(assoc) >= b.milestone_value
      [] OTHER -> FALSE

CounterKinds == {"exercise_count", "streak_days", "subject_exercise_count"}

\* C7: an evaluation unlocks a not yet unlocked exercise_count, streak_days
\* or subject_exercise_count badge exactly when its counter has reached the
\* badge's value, and returns exactly the badges it unlocked.
C7_UnlockedIffRule ==
    [][ (resp' # resp /\ resp'.op = "add_exercise" /\ resp'.status = 200) =>
          /\ \A i \in 1..Len(badges) :
                 (badges[i].milestone_type \in CounterKinds
                      /\ user_badges[badges[i].id] = 0) =>
                     (user_badges'[badges[i].id] > 0
                          <=> RuleHolds(badges[i], exercise_logs', exercise_subjects',
                                        daily_entries', today'))
          /\ resp'.badges_unlocked =
                 {b \in BadgeIds : user_badges[b] = 0 /\ user_badges'[b] > 0} ]_vars

\* add_exercise returned the exercise_count and the subject badge and left
\* the streak_days badge locked
C7_Witness ==
    /\ resp.op = "add_exercise" /\ resp.status = 200
    /\ resp.badges_unlocked = {2, 4}
    /\ user_badges[3] = 0

\* C8 as claimed: an evaluation unlocks a not yet unlocked daily_log_streak
\* badge exactly when some run of consecutive days with an entry that ends
\* at or before today is as long as the badge's value.
C8_AnyRunUpToToday ==
    [][ (resp' # resp /\ resp'.op = "add_exercise" /\ resp'.status = 200) =>
          \A i \in 1..Len(badges) :
              (badges[i].milestone_type = "daily_log_streak"
                   /\ user_badges[badges[i].id] = 0) =>
                  (user_badges'[badges[i].id] > 0
                       <=> \E d \in 0..today' :
                               RunEndingAt(daily_entries', d)
                                   >= badges[i].milestone_value) ]_vars

\* C8 as amended: ... exactly when the run of consecutive days with an
\* entry that ends today or yesterday is as long as the badge's value.
C8_RunEndingTodayOrYesterday ==
    [][ (resp' # resp /\ resp'.op = "add_exercise" /\ resp'.status = 200) =>
          \A i \in 1..Len(badges) :
              (badges[i].milestone_type = "daily_log_streak"
                   /\ user_badges[badges[i].id] = 0) =>
                  (user_badges'[badges[i].id] > 0
                       <=> \E d \in {today', today' - 1} :
                               RunEndingAt(daily_entries', d)
                                   >= badges[i].milestone_value) ]_vars

\* add_exercise unlocked the daily_log_streak badge on a day without an
\* entry, for the run that ended the day before
C8_Witness ==
    /\ resp.op = "add_exercise" /\ resp.status = 200
    /\ 5 \in resp.badges_unlocked
    /\ today \notin daily_entries

\* C9 as claimed: when add_exercise, entry_detail, update_entry_notes or
\* update_exercise has returned, every badge whose rule holds on the stored
\* data is in user_badges.
C9_EvaluatedAfterEveryMutation ==
    (resp.op \in {"add_exercise", "entry_detail", "update_entry_notes",
                  "update_exercise"} /\ resp.status = 200) =>
        \A i \in 1..Len(badges) :
            UnlockedBadge(badges[i], Counters(exercise_logs, exercise_subjects,
                                              daily_entries, today))
                => user_badges[badges[i].id] > 0

C11_DuplicateUnlockSilent ==
    [][ \A w \in Workers :
            (proc[w].pc = "unlock" /\ proc'[w].pc = "idle") =>
                /\ resp'.status = 200
                /\ \A i \in 1..Len(badges) :
                       UnlockedBadge(badges[i], proc[w].k)
                           => user_badges'[badges[i].id] > 0 ]_vars

\* the rows of a badges table that carry the pair of b
SamePair(defs, b) == {j \in 1..Len(defs) : Pair(defs[j]) = Pair(b)}

\* a name with a character of the Hebrew block, U+0590 to U+05FF
InHebrewScript(name) ==
    \E j \in DOMAIN name : name[j] \in HebrewFirst..HebrewLast

CleanedUp == resp'.op = "cleanup_duplicate_badges"

\* C12: after cleanup_duplicate_badges every (milestone_type,
\* milestone_value) pair that had a definition has exactly one, every
\* remaining definition is one of the old ones, and a definition whose pair
\* was not duplicated is still there.
C12_OneDefinitionPerPair ==
    [][ CleanedUp =>
          /\ \A i \in 1..Len(badges) :
                 Cardinality(SamePair(badges', badges[i])) = 1
          /\ \A j \in 1..Len(badges') :
                 \E i \in 1..Len(badges) : badges[i] = badges'[j]
          /\ \A i \in 1..Len(badges) :
                 Cardinality(SamePair(badges, badges[i])) = 1
                     => \E j \in 1..Len(badges') : badges'[j] = badges[i] ]_vars

\* the cleanup has removed one definition of a duplicated pair and kept the
\* definition of the other pair
C12_Witness ==
    /\ resp.op = "cleanup_duplicate_badges"
    /\ Len(badges) = MaxBadgeRows - 1
    /\ \E i, j \in 1..Len(badges) : Pair(badges[i]) # Pair(badges[j])

\* C13 as claimed: after cleanup_duplicate_badges every badge_id in
\* user_badges is the id of a definition in badges, and a pair that had an
\* unlocked definition has its surviving definition unlocked.
C13_UnlocksFollowSurvivor ==
    [][ CleanedUp =>
          /\ \A b \in DOMAIN user_badges' :
                 user_badges'[b] > 0 => \E j \in 1..Len(badges') : badges'[j].id = b
          /\ \A i \in 1..Len(badges) :
                 user_badges[badges[i].id] > 0 =>
                     \E j \in SamePair(badges', badges[i]) :
                         user_badges'[badges'[j].id] > 0 ]_vars

\* C14: the definition that survives of a group is one with a Hebrew name
\* when the group has one, and otherwise the first definition of the group.
C14_SurvivorPreferred ==
    [][ CleanedUp =>
          \A j \in 1..Len(badges') :
              LET group == SamePair(badges, badges'[j])
                  first == CHOOSE i \in group : \A l \in group : i <= l
              IN  IF \E i \in group : InHebrewScript(badges[i].name)
                  THEN InHebrewScript(badges'[j].name)
                  ELSE badges'[j] = badges[first] ]_vars

\* the cleanup has kept the third definition of a group of three, the only
\* one with a Hebrew name
C14_Witness ==
    /\ resp.op = "cleanup_duplicate_badges"
    /\ Len(badges) = 1
    /\ badges[1].id = MaxBadgeRows
    /\ InHebrewScript(badges[1].name)

\* a step that is a request on one of the paths that write daily_entries,
\* carrying the date string s
DatedRequest(s) ==
    \/ entry_detail(s)
    \/ update_entry_notes(s)
    \/ \E names \in UntaggedInputs : add_exercise(s, names)
    \/ \E imported \in ImportedExercises : import_data(s, imported)

C16_ExerciseAndBadgesAtomic ==
    \A i \in 1..Len(badges) :
        (badges[i].milestone_type = "exercise_count"
             /\ Cardinality(exercise_logs) >= badges[i].milestone_value)
            => user_badges[badges[i].id] > 0

\* the row of user_stats that holds the pair a page has shown
ShownRow == [current_streak |-> resp.streak[1], longest_streak |-> resp.streak[2]]

\* C17 as claimed: user_stats never holds a second row, and after every call
\* of calculate_streak, on an empty history too, it holds exactly one row,
\* equal to the pair returned.
C17_OneRowAfterEveryCall ==
    /\ Len(user_stats) <= 1
    /\ StreakShown => user_stats = <<ShownRow>>

\* C17 as amended: user_stats never holds a second row; after a call on a
\* non-empty history it holds exactly one row, equal to the pair returned;
\* a call on an empty history returns (0, 0) and leaves user_stats empty.
C17_OneRowUnlessEmptyHistory ==
    /\ Len(user_stats) <= 1
    /\ StreakShown =>
           IF daily_entries = {}
           THEN resp.streak = <<0, 0>> /\ user_stats = << >>
           ELSE user_stats = <<ShownRow>>

\* a later call has overwritten the row: the current streak it holds has
\* fallen back to 0 below a longest streak of two
C17_Witness ==
    /\ StreakShown
    /\ user_stats = <<[current_streak |-> 0, longest_streak |-> 2]>>

\* C18: on the stored dates and today, the daily_log_streak check_badges
\* computes equals the current_streak calculate_streak returns; and a
\* streak_days badge and a daily_log_streak badge of the same value are
\* either both in user_badges or both not.
C18_DailyLogIsCurrentStreak ==
    /\ DailyLogStreak(daily_entries, today) = StreakPair(daily_entries, today)[1]
    /\ \A i, j \in 1..Len(badges) :
           (/\ badges[i].milestone_type = "streak_days"
            /\ badges[j].milestone_type = "daily_log_streak"
            /\ badges[i].milestone_value = badges[j].milestone_value)
               => user_badges[badges[i].id] = user_badges[badges[j].id]

\* one add_exercise has returned both the streak_days and the
\* daily_log_streak badge while an entry is dated after today
C18_Witness ==
    /\ resp.op = "add_exercise" /\ resp.status = 200
    /\ {3, 5} \subseteq resp.badges_unlocked
    /\ \E d \in daily_entries : d > today

\* C19: over every request and every midnight the stored entry dates only
\* grow, and the longest_streak calculate_streak would return does not
\* decrease.
C19_DatesOnlyGrow ==
    [][ /\ daily_entries \subseteq daily_entries'
        /\ StreakPair(daily_entries', today')[2]
               >= StreakPair(daily_entries, today)[2] ]_vars

\* an exercise has been deleted while the entries stay: the page shows a
\* current streak of 0 and the longest streak of the two days logged
C19_Witness ==
    /\ resp.op = "get_stats"
    /\ resp.streak = <<0, 2>>
    /\ exercise_logs = {} /\ next_exercise_id > 1
    /\ Cardinality(daily_entries) >= 2

\* C20 as claimed: add_exercise and update_exercise called with a subject
\* name that is not in subjects answer 200 and leave the name in subjects
\* and associated with the exercise.
C20_NewSubjectCreated ==
    [][ \A names \in SubjectInputs :
            (/\ ~(names \subseteq subjects)
             /\ \/ \E d \in Days : add_exercise(isoformat(d), names)
                \/ \E e \in ExerciseIds : update_exercise(e, names))
                => /\ resp'.status = 200
                   /\ names \subseteq subjects'
                   /\ \A s \in names : \E p \in exercise_subjects' : p[2] = s ]_vars

\* C21: viewing a valid date adds that date, and nothing else, to the stored
\* entry dates (nothing at all when it is stored already) and logs no
\* exercise; the pages that show the statistics leave the entry dates as
\* they are and count every stored date: the longest streak is at least 1
\* once a date is stored, the current streak at least 1 when today is.
C21_ViewCreatesEntry ==
    [][ /\ \A d \in StreakDays :
               entry_detail(isoformat(d)) =>
                   /\ daily_entries' = daily_entries \cup {d}
                   /\ exercise_logs' = exercise_logs
        /\ get_stats =>
               /\ daily_entries' = daily_entries
               /\ daily_entries # {} => resp'.streak[2] >= 1
               /\ today \in daily_entries => resp'.streak[1] >= 1 ]_vars

\* the statistics show a current streak of three days on a journal in which
\* no exercise has ever been logged
C21_Witness ==
    /\ resp.op = "get_stats"
    /\ resp.streak[1] >= 3
    /\ next_exercise_id = 1
    /\ exercise_logs = {}

====
